---- MODULE Spec2Model ----
(***************************************************************************)
(* Canvas & History engine of the DesignIT web design studio.              *)
(*                                                                         *)
(* The program keeps its state in the document: the children of the        *)
(* #canvas element, the <pre> text of #tab1 (HTML) and #tab2 (CSS), the    *)
(* children of the <div> of #tab3 (Reference), and the two arrays of       *)
(* HistoryManager.  Texts are sequences of tokens; "\n" is the newline.    *)
(***************************************************************************)
EXTENDS Integers, Sequences, FiniteSets, TLC

(* ---------------------------- bounds ---------------------------------- *)
\* user operations (add, remove, clear, drag gesture) in one run of Spec
MaxOps == 3
\* greatest pointer height (clientY) of a dragover event
MaxY == 9
\* mutating operations in one run of SpecBound
MaxBoundOps == 51
\* instances on the canvas before the gestures of SpecDrag
MaxInstances == 2
\* entries on the redo stack in one run of SpecStacks
MaxRedoDepth == 3
\* calls of show() in one run of SpecNotification
MaxNotifications == 3
\* the time in ms a run of SpecNotification covers
MaxTime == 4200

(* ------------------------ program constants --------------------------- *)
maxHistorySize == 50
\* the delay in ms of the timer remove() sets, and of the expiry timer
removalDelay == 300
expiryDelay == 3000

(* ------------------------------ texts --------------------------------- *)
NL == "\n"
Whitespace == {"\n", " "}

\* String.prototype.trim() leaves something: some token is not white space
NonBlank(text) == \E i \in 1..Len(text) : text[i] \notin Whitespace

\* the catalog records a palette element carries (html_components.json);
\* js is there when the item has a JS field, <<>> stands for its absence
Catalog ==
  { [title |-> "A", html |-> <<"<p>A</p>">>, css |-> <<".a{color:red}">>,
     reference |-> <<"See ", "https://a.example">>, js |-> <<>>],
    [title |-> "B", html |-> <<"<p>B</p>">>, css |-> <<>>, reference |-> <<>>,
     js |-> <<"b();">>],
    [title |-> "C", html |-> <<"<br/>">>, css |-> <<".c{}">>,
     reference |-> <<"https://c.example">>, js |-> <<>>] }

Urls == {"https://a.example", "https://c.example"}

\* contentContainer.innerHTML = data.html, read back: the markup as the
\* browser serialises it (a void element loses its self-closing slash)
SerializeToken(tok) == IF tok = "<br/>" THEN "<br>" ELSE tok
SerializeHtml(html) == [i \in 1..Len(html) |-> SerializeToken(html[i])]

\* markup.trim() leaves something: the markup has an element
NonBlankMarkup(markup) == markup # <<>>

(* ------------------------------ nodes --------------------------------- *)
\* A child of #canvas.  dragging: the class 'dragging' (part of the markup);
\* live: the delete button has its click listener (not part of the markup);
\* grabbed: this node is the source node of the drag in progress.
Node(kind, title, html, css, reference) ==
  [kind |-> kind, title |-> title, html |-> html, css |-> css,
   reference |-> reference, dragging |-> FALSE, live |-> FALSE, grabbed |-> FALSE]

Header == Node("h3", "", <<>>, <<>>, <<>>)

IsWrapper(n) == n.kind = "wrapper"

Wrappers(c) == SelectSeq(c, IsWrapper)

\* canvas.innerHTML: the markup keeps attributes and classes, not listeners
Serialize(n) == [n EXCEPT !.live = FALSE, !.grabbed = FALSE]
innerHTML(c) == [i \in 1..Len(c) |-> Serialize(c[i])]

\* a child of the <div> of #tab3: the <p> the page starts with, or an entry
RefNode(kind, title, parts, text) ==
  [kind |-> kind, title |-> title, parts |-> parts, text |-> text]
EmptyP == RefNode("p", "", <<>>, <<>>)

(* --------------------------- CanvasManager ---------------------------- *)
createComponentWrapper(data) ==
  [Node("wrapper",
        IF data.title = "" THEN "Component" ELSE data.title,
        SerializeHtml(data.html), data.css, data.reference)
   EXCEPT !.live = TRUE]

RECURSIVE createClickableReference(_)
createClickableReference(referenceText) ==
  IF referenceText = <<>> THEN <<>>
  ELSE LET part == Head(referenceText)
           rest == createClickableReference(Tail(referenceText))
       IN IF part \in Urls THEN <<[type |-> "a", text |-> part]>> \o rest
          ELSE IF NonBlank(<<part>>) THEN <<[type |-> "span", text |-> part]>> \o rest
          ELSE rest

referenceEntry(title, reference) ==
  RefNode("entry", title, createClickableReference(reference), <<>>)

\* mutant: a separator of one newline between two fragments
appendCodeOneNewline(text, fragment) ==
  (IF NonBlank(text) THEN text \o <<NL>> ELSE text) \o fragment \o <<NL>>

\* preElement.textContent gets the separator, then the fragment and a newline
appendCode(text, fragment) ==
  (IF NonBlank(text) THEN text \o <<NL, NL>> ELSE text) \o fragment \o <<NL>>

\* updatePreElementVisibility: display = hasContent ? '' : 'none'
updatePreElementVisibility(text) == ~NonBlank(text)

\* the three views and the display of the two <pre> elements
Tabs(t1, t2, t3, h1, h2) ==
  [tab1 |-> t1, tab2 |-> t2, tab3 |-> t3, hidden1 |-> h1, hidden2 |-> h2]

updateTabs(t, data) ==
  LET t1 == appendCode(t.tab1, data.html)
      t2 == appendCode(t.tab2, data.css)
  IN Tabs(t1, t2, Append(t.tab3, referenceEntry(data.title, data.reference)),
          updatePreElementVisibility(t1), updatePreElementVisibility(t2))

applyComponentCSS(c, css) ==
  IF css = <<>> THEN c ELSE Append(c, Node("style", "", <<>>, css, <<>>))

clearTabs == Tabs(<<>>, <<>>, <<EmptyP>>, TRUE, TRUE)

RECURSIVE rebuildLoop(_, _)
rebuildLoop(ws, t) ==
  IF ws = <<>> THEN t
  ELSE LET w == Head(ws)
           t1 == appendCode(t.tab1, w.html)
           t2 == IF w.css # <<>> THEN appendCode(t.tab2, w.css) ELSE t.tab2
           h2 == IF w.css # <<>> THEN updatePreElementVisibility(t2) ELSE t.hidden2
           t3 == IF w.reference # <<>>
                 THEN Append(t.tab3, referenceEntry(w.title, w.reference))
                 ELSE t.tab3
       IN rebuildLoop(Tail(ws), Tabs(t1, t2, t3, updatePreElementVisibility(t1), h2))

\* mutant: a rebuild that does not empty the views first
rebuildTabsAppending(c, t) == rebuildLoop(Wrappers(c), t)

rebuildTabs(c, t) == rebuildLoop(Wrappers(c), Tabs(<<>>, <<>>, <<>>, t.hidden1, t.hidden2))

(* ----------------------------- layout --------------------------------- *)
\* getBoundingClientRect of the children of #canvas, stacked top to bottom
Height(n) ==
  CASE n.kind = "h3" -> 2
    [] n.kind = "style" -> 0
    [] n.kind = "wrapper" -> IF n.html = <<"<br>">> THEN 4 ELSE 2

RECURSIVE Top(_, _)
Top(c, i) == IF i = 1 THEN 0 ELSE Top(c, i - 1) + Height(c[i - 1])

\* twice the offset y - box.top - box.height / 2, to stay in the integers
Offset2(c, i, y) == 2 * y - 2 * Top(c, i) - Height(c[i])

\* index of the element to insert before, 0 for none
getDragAfterElement(c, y) ==
  LET draggable == {i \in 1..Len(c) : IsWrapper(c[i]) /\ ~c[i].dragging}
      below == {i \in draggable : Offset2(c, i, y) < 0}
  IN IF below = {} THEN 0
     ELSE CHOOSE i \in below :
            \A j \in below :
               \/ Offset2(c, j, y) < Offset2(c, i, y)
               \/ (Offset2(c, j, y) = Offset2(c, i, y) /\ i <= j)

RemoveAt(c, i) == SubSeq(c, 1, i - 1) \o SubSeq(c, i + 1, Len(c))

appendChild(c, i) == Append(RemoveAt(c, i), c[i])

insertBefore(c, i, ref) ==
  LET r == IF ref > i THEN ref - 1 ELSE ref
      without == RemoveAt(c, i)
  IN SubSeq(without, 1, r - 1) \o <<c[i]>> \o SubSeq(without, r, Len(without))

(* --------------------------- HistoryManager --------------------------- *)
\* getTabContent('tab3'): the text of the first <p> of the tab, '' without one
getTabContent3(t3) ==
  LET ps == {i \in 1..Len(t3) : t3[i].kind = "p"}
  IN IF ps = {} THEN <<>>
     ELSE t3[CHOOSE i \in ps : \A j \in ps : i <= j].text

\* the state object of saveState, undo and redo (the timestamp, read by
\* getHistorySummary alone, is left out)
stateObject(c, t) ==
  [canvasContent |-> innerHTML(c), tab1Content |-> t.tab1, tab2Content |-> t.tab2,
   tab3Content |-> getTabContent3(t.tab3), tab3Structure |-> t.tab3]

\* mutant: saveState without the size limit
saveStateHistoryUnbounded(h, state) == Append(h, state)

\* this.history after saveState
saveStateHistory(h, state) ==
  LET pushed == Append(h, state)
  IN IF Len(pushed) > maxHistorySize THEN Tail(pushed) ELSE pushed

\* mutant: undo and redo that leave the Reference structure out
restoreTabsWithoutStructure(state) ==
  Tabs(state.tab1Content, state.tab2Content, <<>>,
       updatePreElementVisibility(state.tab1Content),
       updatePreElementVisibility(state.tab2Content))

\* the views after setTabContent x3 and setTabStructure
restoreTabs(state) ==
  Tabs(state.tab1Content, state.tab2Content, state.tab3Structure,
       updatePreElementVisibility(state.tab1Content),
       updatePreElementVisibility(state.tab2Content))

(* --------------------------- ExportManager ---------------------------- *)
\* Array.join('\n')
RECURSIVE Join(_)
Join(texts) ==
  IF texts = <<>> THEN <<>>
  ELSE IF Len(texts) = 1 THEN Head(texts)
  ELSE Head(texts) \o <<NL>> \o Join(Tail(texts))

IsStyle(n) == n.kind = "style"

\* the text of the style elements of the canvas, in document order
extractCSSFromCanvas(c) ==
  LET styles == SelectSeq(c, IsStyle)
  IN Join([i \in 1..Len(styles) |-> styles[i].css])

IsExportedContent(n) == n.kind \notin {"h3", "style"}

\* content: the markup of the canvas without the header and the style
\* elements; js: the text of the <pre> of #tab3, '' as the tab has none
generateExportData(c) ==
  [content |-> SelectSeq(innerHTML(c), IsExportedContent),
   css |-> extractCSSFromCanvas(c),
   js |-> <<>>]

\* the document of generateFullHTML: the three places the template fills
\* (the script element is there when js.trim() is not empty)
generateFullHTML(exportData) ==
  [style |-> exportData.css, body |-> exportData.content,
   script |-> IF NonBlank(exportData.js) THEN exportData.js ELSE <<>>]

NoDocument == [style |-> <<>>, body |-> <<>>, script |-> <<>>]

\* JSZip at the time of the call: undefined, or defined with a generateAsync
\* that resolves or rejects
Packaging == {"undefined", "resolves", "rejects"}

\* notice: the notification shown; kind: what was downloaded; files: the
\* entries of the archive, or the one file; css, js: the text of styles.css
\* and script.js; JSZip: the packaging the call found
Export(notice, kind, files, document, JSZip) ==
  [notice |-> notice, kind |-> kind, files |-> files, document |-> document,
   css |-> IF "styles.css" \in files THEN document.style ELSE <<>>,
   js |-> IF "script.js" \in files THEN document.script ELSE <<>>,
   JSZip |-> JSZip]

NoExport == Export("none", "none", {}, NoDocument, "none")

downloadAsZip(exportData, JSZip) ==
  IF JSZip # "undefined"
  THEN IF JSZip = "rejects"
       THEN Export("error", "none", {}, NoDocument, JSZip)
       ELSE Export("success", "zip",
                   {"index.html"}
                     \cup (IF NonBlank(exportData.css) THEN {"styles.css"} ELSE {})
                     \cup (IF NonBlank(exportData.js) THEN {"script.js"} ELSE {}),
                   generateFullHTML(exportData), JSZip)
  ELSE Export("success", "file", {"design-export.html"},
              generateFullHTML(exportData), JSZip)

\* mutant: exportDesign without its two early returns
exportDesignOfAnything(root, c, JSZip) ==
  IF ~root THEN Export("error", "none", {}, NoDocument, JSZip)
  ELSE downloadAsZip(generateExportData(c), JSZip)

\* mutant: exportDesign that packages although JSZip is undefined
exportDesignAlwaysZip(root, c, JSZip) ==
  IF ~root THEN Export("error", "none", {}, NoDocument, JSZip)
  ELSE IF Wrappers(c) = <<>> THEN Export("info", "none", {}, NoDocument, JSZip)
  ELSE [downloadAsZip(generateExportData(c), "resolves") EXCEPT !.JSZip = JSZip]

\* exportDesign() on the canvas c: a missing canvas makes querySelectorAll
\* throw, which the catch block reports
exportDesign(root, c, JSZip) ==
  IF ~root THEN Export("error", "none", {}, NoDocument, JSZip)
  ELSE IF Wrappers(c) = <<>> THEN Export("info", "none", {}, NoDocument, JSZip)
  ELSE LET exportData == generateExportData(c)
       IN IF ~NonBlankMarkup(exportData.content)
          THEN Export("info", "none", {}, NoDocument, JSZip)
          ELSE downloadAsZip(exportData, JSZip)

(* -------------------------------- App --------------------------------- *)
requiredManagers ==
  {"notification", "error", "copy", "tab", "resizer", "history", "canvas",
   "export", "component"}

\* the elements healthCheck looks for, #canvas aside
requiredElements == {"copyBtn", "undo", "clear", "export"}

\* the three catalog files, in the order ComponentManager.init loads them
catalogFiles == <<"html_components.json", "js_components.json", "api_components.json">>

\* the file loaded after the file at index i, "loaded" after the last one
nextCatalogFile(i) ==
  IF i = Len(catalogFiles) THEN "loaded" ELSE catalogFiles[i + 1]

\* pc: where init() is; catalog: the file ComponentManager.init is loading,
\* or "none", "loaded", "failed"
AppObject(pc, managers, isInitialized, catalog, elements, health) ==
  [pc |-> pc, managers |-> managers, isInitialized |-> isInitialized,
   catalog |-> catalog, elements |-> elements, health |-> health]

NoHealth == [checked |-> FALSE, healthy |-> FALSE, issues |-> {}]

\* the application once init() has run and the catalog is there
RunningApp ==
  AppObject("done", requiredManagers, TRUE, "loaded", requiredElements, NoHealth)

healthCheck(managers, elements, root) ==
  LET missing == {<<"manager", name>> : name \in requiredManagers \ managers}
                   \cup {<<"element", id>> : id \in requiredElements \ elements}
                   \cup (IF root THEN {} ELSE {<<"element", "canvas">>})
  IN [checked |-> TRUE, healthy |-> missing = {}, issues |-> missing]

(* ------------------------ NotificationManager ------------------------- *)
\* active: this.activeNotification, 0 for null; document: the notification
\* elements in document.body; shownAt[n]: when notification n was made;
\* timers: the pending setTimeout callbacks, serial in the order they were
\* set; now: the time in ms
NoNotification ==
  [enabled |-> FALSE, active |-> 0, document |-> {}, shownAt |-> <<>>,
   timers |-> {}, serial |-> 0, now |-> 0]

\* setTimeout(callback, delay) of the manager nm
setTimeout(nm, kind, delay) ==
  [nm EXCEPT !.timers = @ \cup {[kind |-> kind, at |-> nm.now + delay,
                                 serial |-> nm.serial + 1]},
             !.serial = @ + 1]

\* NotificationManager.remove()
remove(nm) ==
  IF nm.active # 0 /\ nm.active \in nm.document
  THEN setTimeout(nm, "removal", removalDelay)
  ELSE nm

\* the callback remove() sets: it reads this.activeNotification when it runs
removalCallback(nm) ==
  [nm EXCEPT !.document = IF nm.active # 0 THEN @ \ {nm.active} ELSE @,
             !.active = 0]

\* NotificationManager.show(message, type); the timer that adds the class
\* 'show' changes the look of the element only and is left out
show(nm) ==
  IF ~nm.enabled THEN nm
  ELSE LET removed == remove(nm)
           n == Len(nm.shownAt) + 1
           appended == [removed EXCEPT !.document = @ \cup {n},
                                       !.shownAt = Append(@, nm.now)]
       IN [setTimeout(appended, "expiry", expiryDelay) EXCEPT !.active = n]

\* the timer that runs next: the earliest due, the first set on a tie
NextTimer(nm) ==
  CHOOSE t \in nm.timers :
    \A u \in nm.timers : t.at < u.at \/ (t.at = u.at /\ t.serial <= u.serial)

(* ------------------------------ state --------------------------------- *)
VARIABLES
  canvasRoot,   \* document.getElementById('canvas') finds the element
  paletteFirst, \* the palette precedes #canvas in document order
  canvas,       \* the children of #canvas
  tabs,         \* the views: Tabs(...)
  history,      \* HistoryManager.history
  redoStack,    \* HistoryManager.redoStack
  drag,         \* the drag-and-drop operation in progress
  ops,          \* user operations so far
  phase,        \* "free", or the step of the scenario of SpecBound
  lastOp,       \* the last operation (a gesture is one operation)
  prevOp,       \* the operation before it
  pre,          \* what was observable when the last operation began
  exported,     \* what the last exportDesign() told the user and emitted
  app,          \* the App object: how far init() is, what healthCheck() said
  notification  \* the NotificationManager, its elements and its timers

vars == <<canvasRoot, paletteFirst, canvas, tabs, history, redoStack, drag, ops,
          phase, lastOp, prevOp, pre, exported, app, notification>>

NoDrag == [kind |-> "none", phase |-> "none", data |-> <<>>]

\* what a user or a test can observe of the engine
Observed ==
  [canvas |-> innerHTML(canvas), tab1 |-> tabs.tab1, tab2 |-> tabs.tab2,
   tab3 |-> tabs.tab3, history |-> history, redoStack |-> redoStack]

InitDocument ==
  /\ canvas = <<Header>>
  /\ tabs = clearTabs
  /\ history = <<>>
  /\ redoStack = <<>>
  /\ drag = NoDrag
  /\ ops = 0
  /\ lastOp = "init"
  /\ prevOp = "init"
  /\ pre = Observed
  /\ exported = NoExport
  /\ notification = NoNotification

Init ==
  /\ canvasRoot \in BOOLEAN
  /\ paletteFirst \in BOOLEAN
  /\ phase = "free"
  /\ app = RunningApp
  /\ InitDocument

Idle == phase = "free" /\ drag.kind = "none"

\* a new operation begins
Begins(op) ==
  /\ lastOp' = op
  /\ prevOp' = lastOp
  /\ pre' = Observed

(* ---------------------------- operations ------------------------------ *)
\* mutant: saveState that leaves the redo stack alone
saveStateKeepsRedo ==
  /\ history' = saveStateHistory(history, stateObject(canvas, tabs))
  /\ redoStack' = redoStack

\* mutant: saveState without the early return
saveStateWithoutRoot ==
  /\ history' = saveStateHistory(history, stateObject(canvas, tabs))
  /\ redoStack' = <<>>

\* saveState(): both stacks afterwards
saveState ==
  IF ~canvasRoot THEN UNCHANGED <<history, redoStack>>
  ELSE /\ history' = saveStateHistory(history, stateObject(canvas, tabs))
       /\ redoStack' = <<>>

\* mutant: addComponent that takes its snapshot after the change
addComponentSavingAfter(data) ==
  IF ~canvasRoot THEN UNCHANGED <<canvas, tabs, history, redoStack>>
  ELSE /\ canvas' = applyComponentCSS(Append(canvas, createComponentWrapper(data)),
                                      data.css)
       /\ tabs' = updateTabs(tabs, data)
       /\ history' = saveStateHistory(history, stateObject(canvas', tabs'))
       /\ redoStack' = <<>>

\* CanvasManager.addComponent(data)
addComponent(data) ==
  IF ~canvasRoot THEN UNCHANGED <<canvas, tabs, history, redoStack>>
  ELSE /\ saveState
       /\ canvas' = applyComponentCSS(Append(canvas, createComponentWrapper(data)),
                                      data.css)
       /\ tabs' = updateTabs(tabs, data)

\* a catalog item that lacks its HTML, CSS or Reference field: JSON.stringify
\* leaves the undefined field out of the payload, and the field reads as
\* undefined after JSON.parse; missing names the fields that are not there
IncompleteCatalog ==
  { [title |-> "D", html |-> <<"<p>D</p>">>, css |-> <<".d{}">>,
     reference |-> <<"See D">>, js |-> <<>>, missing |-> {field}] :
       field \in {"html", "css", "reference"} }

\* undefined, turned into text by innerHTML = and by + "\n"
Undefined == <<"undefined">>

\* CanvasManager.addComponent(data) for a record of IncompleteCatalog:
\* createClickableReference(undefined) throws a TypeError out of updateTabs,
\* past applyComponentCSS, to the catch block of handleDrop
addComponentIncomplete(data) ==
  IF ~canvasRoot THEN UNCHANGED <<canvas, tabs, history, redoStack>>
  ELSE LET html == IF "html" \in data.missing THEN Undefined ELSE data.html
           css == IF "css" \in data.missing THEN <<>> ELSE data.css
           cssText == IF "css" \in data.missing THEN Undefined ELSE data.css
           reference == IF "reference" \in data.missing THEN <<>> ELSE data.reference
           wrapper == createComponentWrapper(
                        [title |-> data.title, html |-> html, css |-> css,
                         reference |-> reference])
           t1 == appendCode(tabs.tab1, html)
           t2 == appendCode(tabs.tab2, cssText)
       IN /\ saveState
          /\ IF "reference" \in data.missing
             THEN /\ canvas' = Append(canvas, wrapper)
                  /\ tabs' = Tabs(t1, t2, tabs.tab3, updatePreElementVisibility(t1),
                                  updatePreElementVisibility(t2))
             ELSE /\ canvas' = applyComponentCSS(Append(canvas, wrapper), css)
                  /\ tabs' = Tabs(t1, t2,
                                  Append(tabs.tab3, referenceEntry(data.title, reference)),
                                  updatePreElementVisibility(t1),
                                  updatePreElementVisibility(t2))

\* keyboard activation of a palette element (simulateDragDrop), or a call of
\* addComponent
AddComponent ==
  /\ Idle /\ ops < MaxOps
  /\ \E data \in Catalog : addComponent(data)
  /\ ops' = ops + 1
  /\ Begins("add")
  /\ UNCHANGED <<notification, app, canvasRoot, paletteFirst, exported, drag, phase>>

\* mutant: removeComponent that leaves the views as they are
removeComponentWithoutRebuild(i) ==
  IF ~canvasRoot THEN UNCHANGED <<canvas, tabs, history, redoStack>>
  ELSE /\ saveState
       /\ canvas' = IF i = 0 THEN canvas ELSE RemoveAt(canvas, i)
       /\ tabs' = tabs

\* CanvasManager.removeComponent(wrapper), wrapper the i-th child of the
\* canvas, or (i = 0) a wrapper that is in no document
removeComponent(i) ==
  IF ~canvasRoot THEN UNCHANGED <<canvas, tabs, history, redoStack>>
  ELSE /\ saveState
       /\ canvas' = IF i = 0 THEN canvas ELSE RemoveAt(canvas, i)
       /\ tabs' = rebuildTabs(canvas', tabs)

\* click on the delete button of a wrapper; without a canvas there is no
\* button to click, and the method is called with a wrapper of its own
RemoveComponent ==
  /\ Idle /\ ops < MaxOps
  /\ \/ \E i \in 1..Len(canvas) :
          /\ canvasRoot /\ IsWrapper(canvas[i]) /\ canvas[i].live
          /\ removeComponent(i)
     \/ ~canvasRoot /\ removeComponent(0)
  /\ ops' = ops + 1
  /\ Begins("remove")
  /\ UNCHANGED <<notification, app, canvasRoot, paletteFirst, exported, drag, phase>>

\* mutant: clear that keeps the style elements of the canvas
ClearLeavingStyles ==
  /\ Idle /\ ops < MaxOps
  /\ IF ~canvasRoot THEN UNCHANGED <<canvas, tabs, history, redoStack>>
     ELSE /\ saveState
          /\ canvas' = <<Header>> \o SelectSeq(canvas, IsStyle)
          /\ tabs' = clearTabs
  /\ ops' = ops + 1
  /\ Begins("clear")
  /\ UNCHANGED <<notification, app, canvasRoot, paletteFirst, exported, drag, phase>>

\* click on #clear, or Ctrl+Shift+C: clear()
Clear ==
  /\ Idle /\ ops < MaxOps
  /\ IF ~canvasRoot THEN UNCHANGED <<canvas, tabs, history, redoStack>>
     ELSE /\ saveState
          /\ canvas' = <<Header>>
          /\ tabs' = clearTabs
  /\ ops' = ops + 1
  /\ Begins("clear")
  /\ UNCHANGED <<notification, app, canvasRoot, paletteFirst, exported, drag, phase>>

\* HistoryManager.undo(), past its two early returns
undo ==
  /\ history # <<>>
  /\ canvasRoot
  /\ redoStack' = Append(redoStack, stateObject(canvas, tabs))
  /\ history' = SubSeq(history, 1, Len(history) - 1)
  /\ LET lastState == history[Len(history)]
     IN /\ canvas' = lastState.canvasContent
        /\ tabs' = restoreTabs(lastState)

\* mutant: an undo that pushes onto the redo stack before its early returns
UndoPushingFirst ==
  /\ Idle
  /\ \/ undo
     \/ /\ history = <<>> \/ ~canvasRoot
        /\ redoStack' = Append(redoStack, stateObject(canvas, tabs))
        /\ UNCHANGED <<canvas, tabs, history>>
  /\ Begins("undo")
  /\ UNCHANGED <<notification, app, canvasRoot, paletteFirst, exported, drag, ops, phase>>

\* click on #undo, or Ctrl+Z
Undo ==
  /\ Idle
  /\ \/ undo
     \/ (history = <<>> \/ ~canvasRoot) /\ UNCHANGED <<canvas, tabs, history, redoStack>>
  /\ Begins("undo")
  /\ UNCHANGED <<notification, app, canvasRoot, paletteFirst, exported, drag, ops, phase>>

\* mutant: redo that does not push the current state onto the undo stack
redoWithoutPush ==
  /\ redoStack # <<>>
  /\ canvasRoot
  /\ history' = history
  /\ redoStack' = SubSeq(redoStack, 1, Len(redoStack) - 1)
  /\ LET redoState == redoStack[Len(redoStack)]
     IN /\ canvas' = redoState.canvasContent
        /\ tabs' = restoreTabs(redoState)

\* mutant: redo that leaves the restored entry on the redo stack
redoWithoutPop ==
  /\ redoStack # <<>>
  /\ canvasRoot
  /\ history' = Append(history, stateObject(canvas, tabs))
  /\ redoStack' = redoStack
  /\ LET redoState == redoStack[Len(redoStack)]
     IN /\ canvas' = redoState.canvasContent
        /\ tabs' = restoreTabs(redoState)

\* HistoryManager.redo(), past its two early returns
redo ==
  /\ redoStack # <<>>
  /\ canvasRoot
  /\ history' = Append(history, stateObject(canvas, tabs))
  /\ redoStack' = SubSeq(redoStack, 1, Len(redoStack) - 1)
  /\ LET redoState == redoStack[Len(redoStack)]
     IN /\ canvas' = redoState.canvasContent
        /\ tabs' = restoreTabs(redoState)

\* click on #redo, Ctrl+Y or Ctrl+Shift+Z
Redo ==
  /\ Idle
  /\ \/ redo
     \/ (redoStack = <<>> \/ ~canvasRoot) /\ UNCHANGED <<canvas, tabs, history, redoStack>>
  /\ Begins("redo")
  /\ UNCHANGED <<notification, app, canvasRoot, paletteFirst, exported, drag, ops, phase>>

\* a redo() that restores a state, with undo() as the next call
RoundTripRedo ==
  /\ Idle
  /\ redo
  /\ phase' = "redone"
  /\ Begins("redo")
  /\ UNCHANGED <<notification, app, canvasRoot, paletteFirst, exported, drag, ops>>

\* the undo() that follows at once; pre stays what it was before the redo()
RoundTripUndo ==
  /\ phase = "redone"
  /\ undo
  /\ phase' = "free"
  /\ lastOp' = "redoUndo"
  /\ prevOp' = lastOp
  /\ UNCHANGED <<notification, app, canvasRoot, paletteFirst, exported, drag, ops, pre>>

\* document.querySelector('.dragging'), when it is a component wrapper: its
\* index in the canvas; 0 when the first match is the palette element, or
\* when nothing matches
draggedWrapperOf(c) ==
  LET marked == {i \in 1..Len(c) : c[i].dragging}
  IN IF marked = {} \/ (drag.kind = "catalog" /\ paletteFirst) THEN 0
     ELSE CHOOSE i \in marked : \A j \in marked : i <= j

draggedWrapper == draggedWrapperOf(canvas)

\* dragstart on a wrapper of the canvas: handleReorderDragStart
ReorderDragStart ==
  /\ Idle /\ ops < MaxOps /\ canvasRoot
  /\ \E i \in 1..Len(canvas) :
       /\ IsWrapper(canvas[i])
       /\ canvas' = [canvas EXCEPT ![i].dragging = TRUE, ![i].grabbed = TRUE]
  /\ drag' = [kind |-> "reorder", phase |-> "started", data |-> <<>>]
  /\ ops' = ops + 1
  /\ Begins("dragstart")
  /\ UNCHANGED <<notification, app, canvasRoot, paletteFirst, exported, tabs, history, redoStack, phase>>

\* dragstart on a palette element: the listener of addDragListeners
PaletteDragStart ==
  /\ Idle /\ ops < MaxOps
  /\ \E data \in Catalog :
       drag' = [kind |-> "catalog", phase |-> "started", data |-> data]
  /\ ops' = ops + 1
  /\ Begins("dragstart")
  /\ UNCHANGED <<notification, app, canvasRoot, paletteFirst, exported, canvas, tabs, history, redoStack, phase>>

\* dragstart on a palette element whose catalog item lacks a field
IncompleteDragStart ==
  /\ Idle /\ ops < MaxOps
  /\ \E data \in IncompleteCatalog :
       drag' = [kind |-> "catalog", phase |-> "started", data |-> data]
  /\ ops' = ops + 1
  /\ Begins("dragstart")
  /\ UNCHANGED <<notification, app, canvasRoot, paletteFirst, exported, canvas, tabs, history, redoStack, phase>>

\* what getData('text/html') gives for a drag that starts outside the page:
\* nothing, or text that JSON.parse rejects
Payloads == {<<>>, <<"{">>}

\* a drag that starts outside the page (a file, text of another window): no
\* listener of the page runs at its start
ExternalDragStart ==
  /\ Idle /\ ops < MaxOps
  /\ \E dataString \in Payloads :
       drag' = [kind |-> "external", phase |-> "started", data |-> dataString]
  /\ ops' = ops + 1
  /\ Begins("dragstart")
  /\ UNCHANGED <<notification, app, canvasRoot, paletteFirst, exported, canvas, tabs, history, redoStack,
                 phase>>

\* handleDragOver at pointer height y: the children of the canvas afterwards
handleDragOverOf(c, y) ==
  LET draggedElement == draggedWrapperOf(c)
      afterElement == getDragAfterElement(c, y)
  IN IF draggedElement = 0 THEN c
     ELSE IF afterElement = 0 THEN appendChild(c, draggedElement)
     ELSE insertBefore(c, draggedElement, afterElement)

handleDragOver(y) == handleDragOverOf(canvas, y)

\* mutant: a dragover that takes a snapshot at every step
DragOverSaving ==
  /\ phase = "free" /\ canvasRoot
  /\ drag.kind # "none" /\ drag.phase \in {"started", "over"}
  /\ \E y \in 0..MaxY : canvas' = handleDragOver(y)
  /\ saveState
  /\ drag' = [drag EXCEPT !.phase = "over"]
  /\ lastOp' = "dragover"
  /\ UNCHANGED <<notification, app, canvasRoot, paletteFirst, exported, tabs, ops, phase, prevOp, pre>>

\* dragover on the canvas
DragOver ==
  /\ phase = "free" /\ canvasRoot
  /\ drag.kind # "none" /\ drag.phase \in {"started", "over"}
  /\ \E y \in 0..MaxY : canvas' = handleDragOver(y)
  /\ drag' = [drag EXCEPT !.phase = "over"]
  /\ lastOp' = "dragover"
  /\ UNCHANGED <<notification, app, canvasRoot, paletteFirst, exported, tabs, history, redoStack, ops, phase,
                 prevOp, pre>>

\* drop on the canvas: handleDrop
Drop ==
  /\ phase = "free" /\ canvasRoot
  /\ drag.kind # "none" /\ drag.phase = "over"
  /\ IF draggedWrapper # 0
     THEN /\ saveState
          /\ tabs' = rebuildTabs(canvas, tabs)
          /\ canvas' = canvas
          /\ lastOp' = IF drag.kind = "reorder" THEN "reorder" ELSE "misrouted"
          /\ pre' = pre
     ELSE IF drag.kind = "catalog"
     THEN /\ IF "missing" \in DOMAIN drag.data
             THEN addComponentIncomplete(drag.data)
             ELSE addComponent(drag.data)
          /\ lastOp' = "add"
          /\ pre' = Observed
     ELSE \* 'No data received', or the SyntaxError of JSON.parse, caught
          /\ UNCHANGED <<canvas, tabs, history, redoStack>>
          /\ lastOp' = "rejected"
          /\ pre' = Observed
  /\ drag' = [drag EXCEPT !.phase = "dropped"]
  /\ UNCHANGED <<notification, app, canvasRoot, paletteFirst, exported, ops, phase, prevOp>>

\* dragend, after a drop or without one: handleReorderDragEnd on the canvas,
\* the dragend listener of the palette element
DragEnd ==
  /\ phase = "free"
  /\ drag.kind # "none"
  /\ canvas' = [i \in 1..Len(canvas) |->
                  IF canvas[i].grabbed
                  THEN [canvas[i] EXCEPT !.dragging = FALSE, !.grabbed = FALSE]
                  ELSE canvas[i]]
  /\ drag' = NoDrag
  /\ lastOp' = IF drag.phase = "dropped" THEN lastOp
               ELSE IF drag.kind = "reorder" THEN "abort"
               ELSE IF drag.kind = "catalog" THEN "paletteAbort"
               ELSE "externalAbort"
  /\ UNCHANGED <<notification, app, canvasRoot, paletteFirst, exported, tabs, history, redoStack, ops, phase,
                 prevOp, pre>>

\* a call of HistoryManager.saveState() by itself
SaveState ==
  /\ Idle /\ ops < MaxOps
  /\ saveState
  /\ ops' = ops + 1
  /\ Begins("saveState")
  /\ UNCHANGED <<notification, app, canvasRoot, paletteFirst, exported, canvas, tabs, drag, phase>>

\* mutant: an export that takes the style elements out of the canvas
ExportDesignStripping ==
  /\ Idle
  /\ \E JSZip \in Packaging : exported' = exportDesign(canvasRoot, canvas, JSZip)
  /\ canvas' = SelectSeq(canvas, LAMBDA n : ~IsStyle(n))
  /\ Begins("export")
  /\ UNCHANGED <<notification, app, canvasRoot, paletteFirst, tabs, history, redoStack, drag, ops,
                 phase>>

\* click on #export, or Ctrl+E: exportDesign()
ExportDesign ==
  /\ Idle
  /\ \E JSZip \in Packaging : exported' = exportDesign(canvasRoot, canvas, JSZip)
  /\ Begins("export")
  /\ UNCHANGED <<notification, app, canvasRoot, paletteFirst, canvas, tabs, history, redoStack,
                 drag, ops, phase>>

\* exportDesign() up to the await of zip.generateAsync: the export data are
\* read and the files are put in the archive as strings; invoked keeps the
\* markup of the canvas at the call.  Without an archive to wait for, the
\* call runs to its end.  One export is followed in a run.
ExportBegin ==
  /\ Idle
  /\ exported.notice = "none"
  /\ \E JSZip \in Packaging :
       LET outcome == exportDesign(canvasRoot, canvas, JSZip)
           awaits == JSZip # "undefined" /\ outcome.notice \in {"success", "error"}
                       /\ canvasRoot
           archive == downloadAsZip(generateExportData(canvas), "resolves")
       IN exported' = (IF awaits
                       THEN [archive EXCEPT !.notice = "pending", !.JSZip = JSZip]
                       ELSE outcome) @@ [invoked |-> innerHTML(canvas)]
  /\ Begins("export")
  /\ UNCHANGED <<notification, app, canvasRoot, paletteFirst, canvas, tabs, history, redoStack,
                 drag, ops, phase>>

\* mutant: an archive whose files are written from the canvas when it is generated
ExportSettleRereading ==
  /\ exported.notice = "pending"
  /\ exported' = (IF exported.JSZip = "rejects"
                  THEN Export("error", "none", {}, NoDocument, "rejects")
                  ELSE [downloadAsZip(generateExportData(canvas), "resolves")
                          EXCEPT !.JSZip = exported.JSZip])
                   @@ [invoked |-> exported.invoked]
  /\ lastOp' = "exportDone"
  /\ UNCHANGED <<notification, app, canvasRoot, paletteFirst, canvas, tabs, history, redoStack,
                 drag, ops, phase, prevOp, pre>>

\* zip.generateAsync settles: the archive is downloaded and 'Design exported
\* successfully!' shown, or the catch block shows 'Export failed'
ExportSettle ==
  /\ exported.notice = "pending"
  /\ exported' = (IF exported.JSZip = "rejects"
                  THEN Export("error", "none", {}, NoDocument, "rejects")
                  ELSE [exported EXCEPT !.notice = "success"])
                   @@ [invoked |-> exported.invoked]
  /\ lastOp' = "exportDone"
  /\ UNCHANGED <<notification, app, canvasRoot, paletteFirst, canvas, tabs, history, redoStack,
                 drag, ops, phase, prevOp, pre>>

Next ==
  \/ AddComponent \/ RemoveComponent \/ Clear \/ Undo \/ Redo
  \/ ReorderDragStart \/ PaletteDragStart \/ DragOver \/ Drop \/ DragEnd

Spec == Init /\ [][Next]_vars

(* --------------- add, remove and reorder, nothing else ---------------- *)
NextReorder ==
  \/ AddComponent \/ RemoveComponent
  \/ ReorderDragStart \/ DragOver \/ Drop \/ DragEnd

SpecReorder == Init /\ [][NextReorder]_vars

(* ------------------------------ startup ------------------------------- *)
InitApp ==
  /\ canvasRoot \in BOOLEAN
  /\ paletteFirst = TRUE
  /\ phase = "free"
  /\ \E elements \in SUBSET requiredElements :
       app = AppObject("start", {}, FALSE, "none", elements, NoHealth)
  /\ InitDocument

\* App.init() up to its await: the managers are made, the constructor of
\* ComponentManager starts its own init() and returns
AppInit ==
  /\ app.pc = "start"
  /\ app' = [app EXCEPT !.pc = "waiting", !.managers = requiredManagers,
                         !.catalog = catalogFiles[1]]
  /\ UNCHANGED <<notification, canvasRoot, paletteFirst, canvas, tabs, history,
                 redoStack, drag, ops, phase, lastOp, prevOp, pre, exported>>

\* ComponentManager.init(): the next catalog file is fetched and parsed, or
\* the fetch or the parse fails and init() rejects, with nobody awaiting it
LoadCatalog ==
  /\ \E i \in 1..Len(catalogFiles), ok \in BOOLEAN :
       /\ app.catalog = catalogFiles[i]
       /\ app' = [app EXCEPT !.catalog = IF ok THEN nextCatalogFile(i) ELSE "failed"]
  /\ UNCHANGED <<notification, canvasRoot, paletteFirst, canvas, tabs, history,
                 redoStack, drag, ops, phase, lastOp, prevOp, pre, exported>>

\* the 100 ms timer of initializeComponents fires and init() runs to its end
AppTimeout ==
  /\ app.pc = "waiting"
  /\ app' = [app EXCEPT !.pc = "done", !.isInitialized = TRUE]
  /\ UNCHANGED <<notification, canvasRoot, paletteFirst, canvas, tabs, history,
                 redoStack, drag, ops, phase, lastOp, prevOp, pre, exported>>

\* window.DesignITApp.healthCheck()
HealthCheck ==
  /\ app.pc # "start"
  /\ app' = [app EXCEPT !.health = healthCheck(app.managers, app.elements, canvasRoot)]
  /\ UNCHANGED <<notification, canvasRoot, paletteFirst, canvas, tabs, history,
                 redoStack, drag, ops, phase, lastOp, prevOp, pre, exported>>

NextApp == AppInit \/ LoadCatalog \/ AppTimeout \/ HealthCheck

SpecApp == InitApp /\ [][NextApp]_vars

(* ------------------ the methods without a canvas root ----------------- *)
InitNoRoot ==
  /\ canvasRoot = FALSE
  /\ paletteFirst \in BOOLEAN
  /\ phase = "free"
  /\ app = RunningApp
  /\ InitDocument

NextNoRoot ==
  \/ AddComponent \/ RemoveComponent \/ Clear \/ SaveState \/ Undo \/ Redo

SpecNoRoot == InitNoRoot /\ [][NextNoRoot]_vars

(* ------------------- drops of what is not a record -------------------- *)
NextDrop ==
  \/ AddComponent \/ Undo
  \/ ReorderDragStart \/ ExternalDragStart \/ DragOver \/ Drop \/ DragEnd

SpecDrop == Init /\ [][NextDrop]_vars

(* --------------- drops of records that lack a field ------------------ *)
NextPartial ==
  \/ AddComponent
  \/ IncompleteDragStart \/ DragOver \/ Drop \/ DragEnd

SpecPartial == Init /\ [][NextPartial]_vars

(* ------------------------------ export -------------------------------- *)
NextExport ==
  \/ AddComponent \/ RemoveComponent \/ Clear \/ Undo \/ ExportDesign

SpecExport == Init /\ [][NextExport]_vars

(* -------------------- the history bound scenario ---------------------- *)
\* One record is added again and again, then undo is called again and again.
BoundRecord == CHOOSE data \in Catalog : data.title = "A"

InitBound ==
  /\ canvasRoot = TRUE
  /\ paletteFirst = TRUE
  /\ phase = "mutating"
  /\ app = RunningApp
  /\ InitDocument

BoundAdd ==
  /\ phase = "mutating" /\ ops < MaxBoundOps
  /\ addComponent(BoundRecord)
  /\ ops' = ops + 1
  /\ Begins("add")
  /\ UNCHANGED <<notification, app, canvasRoot, paletteFirst, exported, drag, phase>>

BoundUndo ==
  /\ phase \in {"mutating", "undoing"}
  /\ \/ undo
     \/ history = <<>> /\ UNCHANGED <<canvas, tabs, history, redoStack>>
  /\ phase' = "undoing"
  /\ Begins("undo")
  /\ UNCHANGED <<notification, app, canvasRoot, paletteFirst, exported, drag, ops>>

NextBound == BoundAdd \/ BoundUndo

SpecBound == InitBound /\ [][NextBound]_vars

(* ------------- a full undo stack, then any interleaving --------------- *)
\* One record is added again and again; once the undo stack is one entry
\* short of full, add, undo and redo interleave freely.
StacksAdd ==
  /\ ops < MaxBoundOps
  /\ addComponent(BoundRecord)
  /\ ops' = ops + 1
  /\ Begins("add")
  /\ UNCHANGED <<notification, app, canvasRoot, paletteFirst, exported, drag, phase>>

StacksUndo ==
  /\ ops >= maxHistorySize - 1
  /\ Len(redoStack) < MaxRedoDepth
  /\ undo
  /\ Begins("undo")
  /\ UNCHANGED <<notification, app, canvasRoot, paletteFirst, exported, drag, ops, phase>>

StacksRedo ==
  /\ ops >= maxHistorySize - 1
  /\ \/ redo
     \/ redoStack = <<>> /\ UNCHANGED <<canvas, tabs, history, redoStack>>
  /\ Begins("redo")
  /\ UNCHANGED <<notification, app, canvasRoot, paletteFirst, exported, drag, ops, phase>>

NextStacks == StacksAdd \/ StacksUndo \/ StacksRedo

SpecStacks == InitBound /\ [][NextStacks]_vars

(* ------------------------- nothing but adds --------------------------- *)
NextAdd ==
  \/ AddComponent
  \/ PaletteDragStart \/ DragOver \/ Drop \/ DragEnd

SpecAdd == Init /\ [][NextAdd]_vars

(* ------------- reorder gestures on a canvas with instances ------------ *)
\* Instances are added first; reorder gestures and undo follow.
InitDrag ==
  /\ canvasRoot = TRUE
  /\ paletteFirst = TRUE
  /\ phase = "free"
  /\ app = RunningApp
  /\ InitDocument

DragAdd ==
  /\ Idle /\ lastOp \in {"init", "add"}
  /\ Len(Wrappers(canvas)) < MaxInstances
  /\ \E data \in Catalog : addComponent(data)
  /\ Begins("add")
  /\ UNCHANGED <<notification, app, canvasRoot, paletteFirst, exported, drag, ops, phase>>

NextDrag ==
  \/ DragAdd \/ Undo
  \/ ReorderDragStart \/ DragOver \/ Drop \/ DragEnd

SpecDrag == InitDrag /\ [][NextDrag]_vars

(* ------------------ the HistoryManager without redo ------------------ *)
\* undo() of the undo-only HistoryManager: the entry is popped before the
\* canvas is looked up
undoOnly ==
  /\ history # <<>>
  /\ history' = SubSeq(history, 1, Len(history) - 1)
  /\ redoStack' = redoStack
  /\ LET lastState == history[Len(history)]
     IN IF canvasRoot
        THEN /\ canvas' = lastState.canvasContent
             /\ tabs' = restoreTabs(lastState)
        ELSE UNCHANGED <<canvas, tabs>>

\* click on #undo, or Ctrl+Z
UndoOnly ==
  /\ Idle
  /\ \/ undoOnly
     \/ history = <<>> /\ UNCHANGED <<canvas, tabs, history, redoStack>>
  /\ Begins("undo")
  /\ UNCHANGED <<notification, app, canvasRoot, paletteFirst, exported, drag, ops, phase>>

\* the element #canvas is taken out of the document (by a script of the
\* page or of an extension): getElementById('canvas') gives null from now on
CanvasRemoved ==
  /\ Idle /\ canvasRoot
  /\ canvasRoot' = FALSE
  /\ Begins("canvasRemoved")
  /\ UNCHANGED <<notification, app, paletteFirst, exported, canvas, tabs, history,
                 redoStack, drag, ops, phase>>

NextUndoOnly ==
  \/ AddComponent \/ RemoveComponent \/ Clear \/ UndoOnly \/ CanvasRemoved

SpecUndoOnly == InitDrag /\ [][NextUndoOnly]_vars

(* --------------------------- notifications ---------------------------- *)
\* enableNotifications()
EnableNotifications ==
  /\ ~notification.enabled
  /\ notification' = [notification EXCEPT !.enabled = TRUE]
  /\ UNCHANGED <<app, canvasRoot, paletteFirst, canvas, tabs, history, redoStack, drag,
                 ops, phase, lastOp, prevOp, pre, exported>>

\* show(), showSuccess(), showError() or showInfo()
Show ==
  /\ Len(notification.shownAt) < MaxNotifications
  /\ notification' = show(notification)
  /\ UNCHANGED <<app, canvasRoot, paletteFirst, canvas, tabs, history, redoStack, drag,
                 ops, phase, lastOp, prevOp, pre, exported>>

\* time passes, no timer being due
Tick ==
  /\ notification.now + removalDelay <= MaxTime
  /\ \A t \in notification.timers : t.at > notification.now
  /\ notification' = [notification EXCEPT !.now = @ + removalDelay]
  /\ UNCHANGED <<app, canvasRoot, paletteFirst, canvas, tabs, history, redoStack, drag,
                 ops, phase, lastOp, prevOp, pre, exported>>

\* a timer that is due runs its callback
Timeout ==
  /\ notification.timers # {}
  /\ LET timer == NextTimer(notification)
         rest == [notification EXCEPT !.timers = @ \ {timer}]
     IN /\ timer.at <= notification.now
        /\ notification' = IF timer.kind = "removal" THEN removalCallback(rest)
                           ELSE remove(rest)
  /\ UNCHANGED <<app, canvasRoot, paletteFirst, canvas, tabs, history, redoStack, drag,
                 ops, phase, lastOp, prevOp, pre, exported>>

NextNotification == EnableNotifications \/ Show \/ Tick \/ Timeout

SpecNotification == InitDrag /\ [][NextNotification]_vars

(* ------------------ redo() and undo() at once after it ---------------- *)
NextRoundTrip ==
  \/ AddComponent \/ RemoveComponent \/ Clear \/ Undo \/ Redo
  \/ ReorderDragStart \/ DragOver \/ Drop \/ DragEnd
  \/ RoundTripRedo \/ RoundTripUndo

SpecRoundTrip == InitDrag /\ [][NextRoundTrip]_vars

(* ------------- mutations while the archive is generated -------------- *)
NextAsyncExport ==
  \/ AddComponent \/ RemoveComponent \/ Clear \/ Undo \/ Redo
  \/ ExportBegin \/ ExportSettle

SpecAsyncExport == InitDrag /\ [][NextAsyncExport]_vars

(* ------------------------------ claims -------------------------------- *)
Mutating == {"add", "remove", "clear", "reorder"}

\* the canvas, the three views and both stacks, as observable
Content(o) == [canvas |-> o.canvas, tab1 |-> o.tab1, tab2 |-> o.tab2, tab3 |-> o.tab3]

\* the html of the component instances of some markup, in order
InstanceHtml(markup) ==
  LET ws == Wrappers(markup) IN [i \in 1..Len(ws) |-> ws[i].html]

\* C1: undo() with a non-empty undo stack and the canvas root present, then
\* redo() with nothing in between, leaves the canvas content, the three views,
\* the undo stack and the redo stack as they were before the undo().
C1_UndoRedoInverse ==
  [][(/\ lastOp = "undo" /\ pre.history # <<>> /\ canvasRoot
      /\ lastOp' = "redo")
     => Observed' = pre]_vars

C1_Witness ==
  /\ lastOp = "redo" /\ prevOp = "undo"
  /\ pre.redoStack # <<>>
  /\ history # <<>>
  /\ Len(Wrappers(canvas)) >= 2

\* C2: a mutating operation (add, remove, committed reorder, clear) leaves the
\* redo stack empty, also after one or more undo(); a redo() issued right
\* afterwards changes neither the canvas, nor the views, nor the stacks.
C2_RedoInvalidation ==
  [][/\ lastOp' \in Mutating => redoStack' = <<>>
     /\ (lastOp \in Mutating /\ lastOp' = "redo")
          => (Observed' = Observed /\ canvas' = canvas /\ tabs' = tabs)]_vars

C2_Witness ==
  /\ lastOp \in Mutating /\ prevOp = "undo"
  /\ pre.redoStack # <<>>
  /\ redoStack = <<>>

\* the canvas markup after n adds of the record of the bound scenario
RECURSIVE AddedMarkup(_)
AddedMarkup(n) ==
  IF n = 0 THEN innerHTML(<<Header>>)
  ELSE innerHTML(applyComponentCSS(
         Append(AddedMarkup(n - 1), createComponentWrapper(BoundRecord)),
         BoundRecord.css))

\* C3: after more than 50 adds from the empty canvas with empty history,
\* repeated undo() never goes further back than the state after the
\* (ops - 50)th add (the 1st of 51), reaches exactly that state when the undo
\* stack runs empty, never shows the empty canvas, and the undo() after that
\* changes nothing.
C3_HistoryBound ==
  (phase = "undoing" /\ ops > maxHistorySize) =>
    /\ Len(Wrappers(canvas)) >= ops - maxHistorySize
    /\ canvas # <<Header>>
    /\ history = <<>> => /\ innerHTML(canvas) = AddedMarkup(ops - maxHistorySize)
                         /\ Len(redoStack) = maxHistorySize
    /\ pre.history = <<>> => Observed = pre

C3_Witness ==
  /\ phase = "undoing" /\ ops > maxHistorySize
  /\ pre.history = <<>> /\ history = <<>>
  /\ Len(redoStack) = maxHistorySize
  /\ Len(Wrappers(canvas)) = 1

NonWs(text) == SelectSeq(text, LAMBDA tok : tok \notin Whitespace)

RECURSIVE Concat(_)
Concat(seqs) == IF seqs = <<>> THEN <<>> ELSE Head(seqs) \o Concat(Tail(seqs))

HasCss(n) == n.css # <<>>
HasReference(n) == n.reference # <<>>
HasParts(e) == e.kind = "entry" /\ e.parts # <<>>
IsEntry(e) == e.kind = "entry"

InstanceCss(markup) ==
  LET ws == SelectSeq(Wrappers(markup), HasCss) IN [i \in 1..Len(ws) |-> ws[i].css]

InstanceTitles(markup) ==
  LET ws == SelectSeq(Wrappers(markup), HasReference) IN [i \in 1..Len(ws) |-> ws[i].title]

EntryTitles(t3) ==
  LET es == SelectSeq(t3, HasParts) IN [i \in 1..Len(es) |-> es[i].title]

\* the entries of the three views follow the order of the instances of the
\* canvas c (white space and the serialisation of the markup set aside)
SameOrder(c, t) ==
  /\ SerializeHtml(NonWs(t.tab1)) = Concat(InstanceHtml(c))
  /\ NonWs(t.tab2) = Concat(InstanceCss(c))
  /\ EntryTitles(t.tab3) = InstanceTitles(c)

\* C4: under add, remove and reorder alone, whenever no drag is in progress
\* the entries of the HTML, CSS and Reference views are in the order of the
\* component instances on the canvas.
C4_OrderInvariant == drag.kind = "none" => SameOrder(canvas, tabs)

\* C5: undo() right after a reorder committed by a drop restores the order
\* the component instances had before the gesture began.
C5_ReorderSnapshotBefore ==
  [][(lastOp = "reorder" /\ lastOp' = "undo")
     => InstanceHtml(canvas') = InstanceHtml(pre.canvas)]_vars

\* C6: a reorder gesture that ends without a drop on the canvas leaves the
\* canvas, the three views and both stacks as they were before it started.
C6_AbortedDragNoEffect ==
  lastOp = "abort" =>
    /\ Wrappers(innerHTML(canvas)) = Wrappers(pre.canvas)
    /\ tabs.tab1 = pre.tab1 /\ tabs.tab2 = pre.tab2 /\ tabs.tab3 = pre.tab3
    /\ history = pre.history /\ redoStack = pre.redoStack

\* C7: in a reorder gesture the undo stack, the redo stack and the views
\* change at the drop and at no other step; the drop pushes exactly one
\* snapshot (the stack grows by one entry, or keeps its 50 entries with the
\* oldest evicted) and rebuilds the views from the canvas.
C7_OneSnapshotPerGesture ==
  [][drag.kind = "reorder" =>
       IF drag.phase = "over" /\ drag'.phase = "dropped"
       THEN /\ history'[Len(history')] = stateObject(canvas, tabs)
            /\ \/ /\ Len(history') = Len(history) + 1
                  /\ SubSeq(history', 1, Len(history)) = history
               \/ /\ Len(history) = maxHistorySize
                  /\ SubSeq(history', 1, Len(history) - 1) = Tail(history)
            /\ tabs' = rebuildTabs(canvas', tabs)
            /\ Len(history') = Len(pre.history) + 1 \/ Len(pre.history) = maxHistorySize
       ELSE UNCHANGED <<history, redoStack, tabs>>]_vars

C7_Witness ==
  /\ lastOp = "reorder" /\ drag.kind = "none"
  /\ Len(history) = Len(pre.history) + 1
  /\ InstanceHtml(canvas) # InstanceHtml(pre.canvas)
  /\ SameOrder(canvas, tabs)

\* exactly two instances on the canvas, both with non-blank html
TwoInstances ==
  /\ Len(Wrappers(canvas)) = 2
  /\ \A i \in 1..2 : NonBlank(Wrappers(canvas)[i].html)

TwoAdds == lastOp = "add" /\ prevOp = "add"

\* C8 as stated: with two instances of html X then Y, after two successive
\* adds and after the rebuild of a committed reorder, the HTML view is X, two
\* newlines, Y and a newline.
C8_TwoNewlines ==
  (TwoInstances /\ (TwoAdds \/ lastOp = "reorder")) =>
    tabs.tab1 = InstanceHtml(canvas)[1] \o <<NL, NL>> \o InstanceHtml(canvas)[2] \o <<NL>>

\* C8 as amended: the HTML view is X, three newlines, Y and a newline; after
\* two successive adds X and Y are the html of the two records as given,
\* after the rebuild of a committed reorder the markup of the two instances
\* as the canvas serialises it.
C8_ThreeNewlines ==
  /\ (TwoInstances /\ lastOp = "reorder") =>
       tabs.tab1 = InstanceHtml(canvas)[1] \o <<NL, NL, NL>>
                   \o InstanceHtml(canvas)[2] \o <<NL>>
  /\ (TwoInstances /\ TwoAdds) =>
       \E d1, d2 \in Catalog :
          /\ SerializeHtml(d1.html) = InstanceHtml(canvas)[1]
          /\ SerializeHtml(d2.html) = InstanceHtml(canvas)[2]
          /\ tabs.tab1 = d1.html \o <<NL, NL, NL>> \o d2.html \o <<NL>>

C8_Witness ==
  /\ TwoInstances /\ lastOp = "reorder" /\ drag.kind = "none"
  /\ InstanceHtml(canvas) = <<(<<"<p>B</p>">>), (<<"<p>A</p>">>)>>
  /\ InstanceHtml(pre.canvas) = <<(<<"<p>A</p>">>), (<<"<p>B</p>">>)>>
  /\ tabs.tab1 = <<"<p>B</p>", NL, NL, NL, "<p>A</p>", NL>>

\* C9: undo() right after addComponent, removeComponent or clear, with the
\* canvas root present, restores the canvas content (instances, order, style
\* elements) and the three views to what they were before that operation.
C9_UndoRestores ==
  [][(lastOp \in {"add", "remove", "clear"} /\ canvasRoot /\ lastOp' = "undo")
     => Content(Observed') = Content(pre)]_vars

C9_Witness ==
  /\ lastOp = "undo" /\ prevOp = "remove"
  /\ Len(Wrappers(canvas)) = Len(Wrappers(pre.canvas)) + 1
  /\ Len(Wrappers(canvas)) >= 2

\* C10: after every undo() and redo() that restores a snapshot the three
\* views are those a rebuild from the restored canvas produces; compared
\* entry by entry, white space and the serialisation of the markup set aside.
C10_ViewsMatchRebuild ==
  (\/ lastOp = "undo" /\ pre.history # <<>>
   \/ lastOp = "redo" /\ pre.redoStack # <<>>) =>
    LET rebuilt == rebuildTabs(canvas, tabs)
    IN /\ SerializeHtml(NonWs(tabs.tab1)) = NonWs(rebuilt.tab1)
       /\ NonWs(tabs.tab2) = NonWs(rebuilt.tab2)
       /\ SelectSeq(tabs.tab3, HasParts) = SelectSeq(rebuilt.tab3, HasParts)

\* C11: a drop on the canvas of a payload that is empty or that JSON.parse
\* rejects changes neither the canvas, nor the views, nor the undo stack,
\* nor the redo stack.
C11_RejectedDropNoEffect ==
  [][(drag.kind = "external" /\ drag.phase = "over" /\ drag'.phase = "dropped")
     => UNCHANGED <<canvas, tabs, history, redoStack>>]_vars

\* the six methods of the engine that change state
Methods == {"add", "remove", "clear", "saveState", "undo", "redo"}

C13_NothingToExport ==
  (lastOp = "export" /\ canvasRoot /\ Wrappers(canvas) = <<>>) =>
    /\ exported.notice = "info"
    /\ exported.kind = "none" /\ exported.files = {}

C13_Witness ==
  /\ lastOp = "export" /\ prevOp = "remove" /\ canvasRoot
  /\ Wrappers(canvas) = <<>> /\ canvas # <<Header>>
  /\ exported.notice = "info" /\ exported.JSZip = "resolves"

\* C14: whenever a design with at least one instance is exported, the CSS of
\* the export is the css of the instances on the canvas, in canvas order
\* (white space set aside), as the CSS view lists it.
C14_CssOfCurrentInstances ==
  (lastOp = "export" /\ exported.kind # "none") =>
    NonWs(exported.document.style) = Concat(InstanceCss(canvas))

\* the record the instance was made from carries a js payload
CarriesJs(n) == \E data \in Catalog : data.title = n.title /\ data.js # <<>>

\* the js of the records the instances were made from, in canvas order
InstanceJs(c) ==
  LET ws == SelectSeq(Wrappers(c), CarriesJs)
  IN [i \in 1..Len(ws) |->
        (CHOOSE data \in Catalog : data.title = ws[i].title).js]

\* C15: the archive of an export has a script.js exactly when some instance
\* on the canvas was made from a record with a js payload, and script.js
\* holds the js of those instances.
C15_ScriptResource ==
  (lastOp = "export" /\ exported.kind = "zip") =>
    /\ ("script.js" \in exported.files) <=> (\E i \in 1..Len(canvas) :
                                                IsWrapper(canvas[i]) /\ CarriesJs(canvas[i]))
    /\ NonWs(exported.js) = Concat(InstanceJs(canvas))

\* C16: when JSZip is defined and generateAsync rejects, exportDesign()
\* downloads the single document instead and reports no failure; the canvas,
\* the views and the stacks stay as they were.
C16_FallbackOnRejection ==
  (lastOp = "export" /\ canvasRoot /\ Wrappers(canvas) # <<>>
     /\ exported.JSZip = "rejects") =>
    /\ exported.kind = "file"
    /\ exported.notice # "error"
    /\ Observed = pre

\* the css of every instance of c with css is the text of a style element
CssInlined(c, style) ==
  \A i \in 1..Len(c) :
     (IsWrapper(c[i]) /\ HasCss(c[i])) =>
        \E j \in 1..(Len(style) - Len(c[i].css) + 1) :
           SubSeq(style, j, j + Len(c[i].css) - 1) = c[i].css

C18_ExportFrame ==
  [][lastOp' = "export"
     => UNCHANGED <<canvas, tabs, history, redoStack>>]_vars

C18_Witness ==
  /\ lastOp = "export" /\ exported.kind = "zip"
  /\ "styles.css" \in exported.files
  /\ history # <<>> /\ redoStack # <<>>
  /\ Observed = pre

\* C19: in every reachable state, rebuildTabs() called twice on the same
\* canvas gives the same HTML, CSS and Reference views both times; so does a
\* call right after a remove or a drop, which end with a rebuild.
C19_RebuildIdempotent ==
  LET once == rebuildTabs(canvas, tabs)
  IN /\ rebuildTabs(canvas, once) = once
     /\ (canvasRoot /\ lastOp \in {"remove", "reorder", "misrouted"}) => once = tabs

C19_Witness ==
  /\ lastOp = "reorder" /\ drag.kind = "none"
  /\ Len(Wrappers(canvas)) >= 2
  /\ NonBlank(tabs.tab2) /\ SelectSeq(tabs.tab3, HasParts) # <<>>
  /\ rebuildTabs(canvas, tabs) = tabs

\* C20: after every completed add, remove, committed reorder, clear, undo
\* and redo, the <pre> of the HTML view and that of the CSS view are hidden
\* exactly when their text is empty or white space.
C20_HiddenIffBlank ==
  (canvasRoot /\ drag.kind = "none"
     /\ lastOp \in {"add", "remove", "reorder", "clear", "undo", "redo"}) =>
    /\ tabs.hidden1 <=> ~NonBlank(tabs.tab1)
    /\ tabs.hidden2 <=> ~NonBlank(tabs.tab2)

\* C21: undo() with an empty undo stack and redo() with an empty redo stack
\* change neither the canvas, nor the views, nor either stack.
C21_EmptyStackNoOp ==
  /\ (lastOp = "undo" /\ pre.history = <<>>) => Observed = pre
  /\ (lastOp = "redo" /\ pre.redoStack = <<>>) => Observed = pre

C21_Witness ==
  /\ lastOp = "undo" /\ prevOp = "undo" /\ canvasRoot
  /\ pre.history = <<>> /\ history = <<>>
  /\ redoStack # <<>> /\ redoStack = pre.redoStack

\* C22: once a catalog file has failed to load, init() does not mark the
\* application initialized, and a healthCheck() made with all required
\* elements in the document reports healthy = false.
C22_CatalogFailureUnhealthy ==
  [][/\ app'.catalog = "failed" => ~app'.isInitialized
     /\ (/\ app.catalog = "failed" /\ app'.health # app.health
         /\ canvasRoot /\ app.elements = requiredElements)
          => ~app'.health.healthy]_vars

\* C23: the undo stack never holds more than 50 entries, nor do the undo
\* stack and the redo stack together.
C23_StacksBound ==
  /\ Len(history) <= maxHistorySize
  /\ Len(history) + Len(redoStack) <= maxHistorySize

C23_Witness ==
  /\ lastOp = "redo" /\ pre.redoStack # <<>>
  /\ Len(pre.history) = maxHistorySize - 1
  /\ Len(history) = maxHistorySize

\* the index in the canvas of the wrapper the reorder gesture started on
GrabbedWrapper == CHOOSE i \in 1..Len(canvas) : canvas[i].grabbed

NotGrabbed(n) == ~n.grabbed

ReorderInProgress == drag.kind = "reorder" /\ drag.phase \in {"started", "over"}

\* C24: in a reorder drag, a dragover at pointer height y puts the dragged
\* instance just before the other instance with the greatest negative
\* y - top - height / 2 (the earliest on ties), or after all other instances
\* when no offset is negative; the other instances keep their order.
C24_InsertionTarget ==
  ReorderInProgress =>
    \A y \in 0..MaxY :
       LET g == GrabbedWrapper
           others == {i \in 1..Len(canvas) : IsWrapper(canvas[i]) /\ i # g}
           below == {i \in others : Offset2(canvas, i, y) < 0}
           rest == SelectSeq(Wrappers(canvas), NotGrabbed)
           after == handleDragOver(y)
       IN /\ SelectSeq(Wrappers(after), NotGrabbed) = rest
          /\ IF below = {}
             THEN Wrappers(after) = Append(rest, canvas[g])
             ELSE LET t == CHOOSE i \in below :
                             \A j \in below :
                                \/ Offset2(canvas, j, y) < Offset2(canvas, i, y)
                                \/ (Offset2(canvas, j, y) = Offset2(canvas, i, y) /\ i <= j)
                  IN \E k \in 1..(Len(after) - 1) :
                        after[k] = canvas[g] /\ after[k + 1] = canvas[t]

\* C25: in a reorder drag, two dragover steps at the same pointer height
\* leave the instances in the order one step leaves them in.
C25_DragOverIdempotent ==
  ReorderInProgress =>
    \A y \in 0..MaxY :
       Wrappers(handleDragOverOf(handleDragOver(y), y)) = Wrappers(handleDragOver(y))

\* the snapshot saveState() takes of the state the last operation began in
PreSnapshot ==
  [canvasContent |-> pre.canvas, tab1Content |-> pre.tab1, tab2Content |-> pre.tab2,
   tab3Content |-> getTabContent3(pre.tab3), tab3Structure |-> pre.tab3]

\* C26: addComponent with the canvas root present pushes one snapshot, that
\* of the state before the add, and puts the new instance after the
\* instances there were, which keep their order.
C26_AddSnapshotAppend ==
  (lastOp = "add" /\ canvasRoot) =>
    /\ history = saveStateHistory(pre.history, PreSnapshot)
    /\ LET ws == Wrappers(innerHTML(canvas))
       IN /\ Len(ws) = Len(Wrappers(pre.canvas)) + 1
          /\ SubSeq(ws, 1, Len(ws) - 1) = Wrappers(pre.canvas)
          /\ \E data \in Catalog : ws[Len(ws)] = Serialize(createComponentWrapper(data))

C26_Witness ==
  /\ lastOp = "add" /\ canvasRoot /\ drag.phase = "dropped"
  /\ Len(Wrappers(canvas)) >= 2
  /\ history[Len(history)] = PreSnapshot
  /\ Len(history) = Len(pre.history) + 1

\* C27: removeComponent on an instance of the canvas pushes one snapshot,
\* that of the state before the removal, takes that one wrapper out of the
\* canvas and nothing else, and leaves views that list the remaining
\* instances and no other.
C27_RemoveSnapshotRebuild ==
  (lastOp = "remove" /\ canvasRoot) =>
    /\ history = saveStateHistory(pre.history, PreSnapshot)
    /\ \E i \in 1..Len(pre.canvas) :
          IsWrapper(pre.canvas[i]) /\ innerHTML(canvas) = RemoveAt(pre.canvas, i)
    /\ SameOrder(canvas, tabs)
    /\ Len(SelectSeq(tabs.tab3, HasParts)) = Len(SelectSeq(tabs.tab3, IsEntry))

C27_Witness ==
  /\ lastOp = "remove" /\ canvasRoot
  /\ Len(Wrappers(pre.canvas)) = 2 /\ Len(Wrappers(canvas)) = 1
  /\ NonBlank(pre.tab2) /\ ~NonBlank(tabs.tab2)
  /\ history[Len(history)] = PreSnapshot

\* C28: clear() with the canvas root present pushes one snapshot, that of
\* the state before it, and leaves a canvas with no instance and no style
\* element, an empty HTML view, an empty CSS view and a Reference view with
\* no entry.
C28_ClearSnapshotEmpty ==
  (lastOp = "clear" /\ canvasRoot) =>
    /\ history = saveStateHistory(pre.history, PreSnapshot)
    /\ Wrappers(canvas) = <<>> /\ SelectSeq(canvas, IsStyle) = <<>>
    /\ tabs.tab1 = <<>> /\ tabs.tab2 = <<>>
    /\ SelectSeq(tabs.tab3, IsEntry) = <<>>

C28_Witness ==
  /\ lastOp = "clear" /\ canvasRoot
  /\ Len(Wrappers(pre.canvas)) >= 2 /\ SelectSeq(pre.canvas, IsStyle) # <<>>
  /\ canvas = <<Header>>
  /\ history[Len(history)] = PreSnapshot

\* C29: after adds alone, the HTML and CSS views and the entries of the
\* Reference view are those rebuildTabs() makes from the canvas.
C29_AddEqualsRebuild ==
  (canvasRoot /\ drag.kind = "none") =>
    LET rebuilt == rebuildTabs(canvas, tabs)
    IN /\ tabs.tab1 = rebuilt.tab1
       /\ tabs.tab2 = rebuilt.tab2
       /\ SelectSeq(tabs.tab3, IsEntry) = SelectSeq(rebuilt.tab3, IsEntry)

\* C30: after undo() and redo() the delete button of every instance on the
\* canvas still has the click listener that runs removeComponent.
C30_DeleteAfterRestore ==
  (canvasRoot /\ drag.kind = "none" /\ lastOp \in {"undo", "redo"}) =>
    \A i \in 1..Len(canvas) : IsWrapper(canvas[i]) => canvas[i].live

\* C31: with no drag in progress no child of the canvas has the class
\* 'dragging', and the drop of a palette payload is handled as an add.
C31_NoStaleMarker ==
  /\ drag.kind = "none" => \A i \in 1..Len(canvas) : ~canvas[i].dragging
  /\ (drag.kind = "catalog" /\ drag.phase = "dropped") => lastOp = "add"

\* C32: the drop of a payload that parses either takes one snapshot, appends
\* the instance, adds to the HTML view, the CSS view and the Reference view
\* and appends the style element of its css, or changes nothing.
C32_DropAllOrNothing ==
  (drag.kind = "catalog" /\ drag.phase = "dropped" /\ lastOp = "add") =>
    \/ Observed = pre
    \/ /\ history = saveStateHistory(pre.history, PreSnapshot)
       /\ Len(Wrappers(canvas)) = Len(Wrappers(pre.canvas)) + 1
       /\ tabs.tab1 # pre.tab1
       /\ tabs.tab2 # pre.tab2
       /\ Len(SelectSeq(tabs.tab3, IsEntry)) = Len(SelectSeq(pre.tab3, IsEntry)) + 1
       /\ LET data == drag.data
              given == "missing" \notin DOMAIN data \/ "css" \notin data.missing
          IN (given /\ data.css # <<>>) =>
               (IsStyle(canvas[Len(canvas)]) /\ canvas[Len(canvas)].css = data.css)

\* C33: the archive exportDesign produces holds the markup and the css of
\* the canvas as it was when exportDesign was called, whatever add, remove,
\* clear, undo or redo did while the archive was generated.
C33_ExportOfInvocation ==
  (exported.notice = "success" /\ exported.kind = "zip") =>
    LET exportData == generateExportData(exported.invoked)
    IN /\ exported.document = generateFullHTML(exportData)
       /\ exported.document.body = SelectSeq(exported.invoked, IsExportedContent)
       /\ exported.css = exportData.css

C33_Witness ==
  /\ exported.notice = "success" /\ exported.kind = "zip"
  /\ lastOp = "exportDone"
  /\ Wrappers(innerHTML(canvas)) # Wrappers(exported.invoked)
  /\ extractCSSFromCanvas(canvas) # exported.css
  /\ exported.css # <<>>

\* C34: redo() on a non-empty redo stack followed at once by undo() leaves
\* the markup of the canvas, the three views and both stacks as they were
\* before the redo().
C34_RedoUndoInverse ==
  lastOp = "redoUndo" => Observed = pre

C34_Witness ==
  /\ lastOp = "redoUndo" /\ canvasRoot
  /\ redoStack # <<>> /\ history # <<>>
  /\ redoStack[Len(redoStack)].canvasContent # innerHTML(canvas)
  /\ Wrappers(canvas) # <<>>

\* C35: the snapshot a mutating operation pushes differs from the state the
\* operation leaves, in the markup of the canvas or in a view, so that an
\* undo() right after it changes something.
C35_NoNoOpSnapshot ==
  (canvasRoot /\ drag.kind = "none" /\ history # <<>>
     /\ lastOp \in Mutating) =>
    LET top == history[Len(history)]
    IN \/ top.canvasContent # innerHTML(canvas)
       \/ top.tab1Content # tabs.tab1
       \/ top.tab2Content # tabs.tab2
       \/ top.tab3Structure # tabs.tab3

\* C36: when isInitialized is true, ComponentManager.init() is not in the
\* middle of loading a catalog file.
C36_InitializedAfterCatalog ==
  app.isInitialized => app.catalog \in {"loaded", "failed"}

\* C37: a notification shown while an earlier one is displayed stays in the
\* document until its own expiry timer is due, and once no removal timer is
\* pending the earlier notifications are out of the document.
C37_NotificationReplaced ==
  LET nm == notification
      latest == Len(nm.shownAt)
      removing == {t \in nm.timers : t.kind = "removal"}
  IN latest >= 2 =>
       /\ nm.now < nm.shownAt[latest] + expiryDelay => latest \in nm.document
       /\ removing = {} => \A n \in 1..(latest - 1) : n \notin nm.document

\* C38: in the HistoryManager without redo, undo() with a non-empty history
\* and no canvas root leaves every entry on the history stack.
C38_UndoOnlyNoRoot ==
  (lastOp = "undo" /\ ~canvasRoot /\ pre.history # <<>>) => history = pre.history

====
